---- MODULE Spec2Model ----
(***************************************************************************)
(* Model of the verco terminal front end, src/src/tui2.rs: show_tui, the   *)
(* session loop Tui::show, the key dispatcher Tui::handle_key, the line    *)
(* prompt Tui::handle_input, the selection loop Tui::show_add_remove_ui    *)
(* and the rendering routines.                                             *)
(*                                                                         *)
(* The program is one sequential thread.  pc is its position; it blocks at *)
(* four places: reading a key in the loop (idle), reading a line in the    *)
(* prompt (prompt), reading a key in the selection list (select) and       *)
(* waiting for a backend operation to return (backend).  Each action runs  *)
(* the code from one blocking point to the next.                           *)
(*                                                                         *)
(* log is everything observable that happened since the loop last read a   *)
(* key (at startup: since show_tui began): the writes to stdout, the       *)
(* explicit flushes, the backend calls and their returns and the inputs    *)
(* consumed, in program order.                                             *)
(***************************************************************************)
EXTENDS Integers, Sequences, FiniteSets, TLC

VARIABLES pc, log, acquired, released, probe, exit, inflight, pending,
          entries, index, selExit, selSteps, eof

vars == <<pc, log, acquired, released, probe, exit, inflight, pending,
          entries, index, selExit, selSteps, eof>>

\* ------------------------------------------------------------------ bounds
MaxEntries == 2
MaxSelSteps == 3

\* ------------------------------------------------------------------ inputs
\* Lines the user can enter in the prompt (the empty line included).
Lines == {"", "abc123"}
\* Text payloads the backend can return.
Texts == {"clean", "fatal"}
\* Paths of the backend's listing, in listing order.
Paths == <<"a.rs", "b.rs", "c.rs", "d.rs">>

Chars == {"h", "e", "s", "l", "d", "D", "c", "C", "U", "u", "m", "r", "R",
          "f", "p", "P", "T", "b", "B", "x"}

\* Key events of termion: Key::Char(ch), Key::Ctrl(ch) and the others.
KeyEvents == [type : {"Char", "Ctrl"}, ch : Chars]
             \cup [type : {"Other"}, ch : {"Esc", "Up"}]

ReadlineResults == [a : {"Ok"}, b : Lines]
                   \cup [a : {"Interrupted", "Eof", "Err"}, b : {""}]

RECURSIVE EntryListsOfLen(_)
EntryListsOfLen(n) ==
    IF n = 0 THEN {<<>>}
    ELSE {Append(l, [path |-> Paths[n], included |-> f]) :
              l \in EntryListsOfLen(n - 1), f \in BOOLEAN}

EntryLists == UNION {EntryListsOfLen(n) : n \in 0..MaxEntries}

\* Results of a backend operation: Result<String, String>, and
\* Result<Vec<Entry>, String> for get_files_to_commit.
TextResults == [a : {"Ok", "Err"}, b : Texts, e : {<<>>}]
EntryResults == [a : {"Ok"}, b : {""}, e : EntryLists]
                \cup [a : {"Err"}, b : Texts, e : {<<>>}]

SelectKeys == {"up", "down", "toggle", "confirm", "abort"}

\* ------------------------------------------------------------------ events
Ev(k, a, b, e) == [k |-> k, a |-> a, b |-> b, e |-> e]
W(a, b) == Ev("write", a, b, <<>>)
Flush(site) == Ev("flush", site, "", <<>>)
Call(op, arg, es) == Ev("call", op, arg, es)
Ret(r) == Ev("ret", r.a, r.b, r.e)

NoCall == [op |-> "none", arg |-> "", e |-> <<>>]
NoBinding == [kind |-> "none", name |-> "", op |-> "", prompt |-> ""]

RepositoryName == "repo"
VERSION == "CARGO_PKG_VERSION"

\* --------------------------------------------------------------- rendering
\* A header that asks the backend for the status line it shows.
show_header_mutC11(o) ==
    o \o <<W("clear", ""), Call("status", "", <<>>),
           Ev("ret", "Ok", "clean", <<>>), W("header", RepositoryName),
           Flush("show_header")>>

\* show_header: clear::All, the header bar and title, then an explicit flush.
show_header(o) ==
    o \o <<W("clear", ""), W("header", RepositoryName), Flush("show_header")>>

\* show_action: the header, then the action's name.
show_action(o, action_name) == show_header(o) \o <<W("action", action_name)>>

\* A handle_result that prints "done" for both outcomes.
handle_result_mutC9(o, result) ==
    o \o <<W("text", result.b), W("done", "")>>

\* handle_result: the payload, then "done" for Ok and "error" for Err.
handle_result(o, result) ==
    IF result.a = "Ok"
    THEN o \o <<W("text", result.b), W("done", "")>>
    ELSE o \o <<W("text", result.b), W("error", "")>>

\* The rows of show_help, in order: shortcut and action text.
HelpTable ==
    << <<"h", "help\n">>, <<"e", "explorer\n">>,
       <<"s", "status">>, <<"l", "log\n">>,
       <<"d", "revision changes">>, <<"shift+d", "revision diff\n">>,
       <<"c", "commit all">>, <<"shift+c", "commit selected">>,
       <<"shift+u", "revert">>, <<"u", "update/checkout">>,
       <<"m", "merge\n">>,
       <<"r", "unresolved conflicts">>,
       <<"shift+r", "resolve taking other">>,
       <<"ctrl+r", "resolve taking local\n">>,
       <<"f", "fetch">>, <<"p", "pull">>, <<"shift+p", "push\n">>,
       <<"shift+t", "create tag\n">>,
       <<"b", "list branches">>, <<"shift+b", "create branch">>,
       <<"ctrl+b", "close branch\n">> >>

\* show_help_action: one row of the listing.
show_help_action(o, shortcut, action) ==
    Append(o, W("help:" \o shortcut, action))

RECURSIVE show_help_rows(_, _)
show_help_rows(o, i) ==
    IF i > Len(HelpTable) THEN o
    ELSE show_help_rows(show_help_action(o, HelpTable[i][1], HelpTable[i][2]),
                        i + 1)

\* show_help up to the call of version_control.version().
show_help_begin(o) == Append(o, W("title", VERSION))

\* show_help after version() returned Ok(version): the rest of the listing.
show_help_ok(o, version) ==
    show_help_rows(o \o <<W("text", version), W("newlines", ""),
                          W("intro", "press a key and peform an action")>>, 1)

\* show_help after version() returned Err(error): the error text; the
\* caller then panics.
show_help_err(o, error) == Append(o, W("errtext", error))

\* handle_input up to the call of readline: the prompt line.
handle_input_begin(o, prompt) == Append(o, W("prompt", prompt))

\* A handle_input that takes an interrupt for an empty line.
handle_input_end_mutC1(o, readline) ==
    CASE readline.a \in {"Ok", "Interrupted"} ->
            [out |-> o, some |-> TRUE, input |-> readline.b]
      [] readline.a = "Eof" ->
            [out |-> Append(o, W("canceled", "")), some |-> FALSE,
             input |-> ""]
      [] OTHER ->
            [out |-> Append(o, W("inputerr", "")), some |-> FALSE,
             input |-> ""]

\* A handle_input that takes an input error for an empty line.
handle_input_end_mutC12(o, readline) ==
    CASE readline.a = "Ok" ->
            [out |-> o, some |-> TRUE, input |-> readline.b]
      [] readline.a \in {"Interrupted", "Eof"} ->
            [out |-> Append(o, W("canceled", "")), some |-> FALSE,
             input |-> ""]
      [] OTHER ->
            [out |-> Append(o, W("inputerr", "")), some |-> TRUE,
             input |-> ""]

\* handle_input after readline returned: Some(line) for Ok, None with the
\* cancel banner for Interrupted and Eof, None with a report for other errors.
handle_input_end(o, readline) ==
    CASE readline.a = "Ok" ->
            [out |-> o, some |-> TRUE, input |-> readline.b]
      [] readline.a \in {"Interrupted", "Eof"} ->
            [out |-> Append(o, W("canceled", "")), some |-> FALSE,
             input |-> ""]
      [] OTHER ->
            [out |-> Append(o, W("inputerr", "")), some |-> FALSE,
             input |-> ""]

\* open_explorer after spawn succeeded: the "done" banner.
open_explorer_ok(o) == Append(o, W("done", ""))

\* A loop that does not flush.
loop_flush_mutC10(o) == o

\* The end of one iteration of the loop in show: stdout.flush().
loop_flush(o) == Append(o, Flush("loop"))

\* ---------------------------------------------------------------- bindings
B0(name, op) == [kind |-> "direct", name |-> name, op |-> op, prompt |-> ""]
B1(name, op, prompt) ==
    [kind |-> "prompt", name |-> name, op |-> op, prompt |-> prompt]

\* A control arm that forgets the modifier for 's'.
ControlArm_mutC2(key) ==
    CASE key = "b" -> B1("close branch", "close_branch",
                         "branch to close (ctrl+c to cancel): ")
      [] key = "r" -> B0("merge taking local", "take_local")
      [] key = "s" -> B0("status", "status")
      [] OTHER -> NoBinding

\* A control arm whose 'r' calls the wrong resolution.
ControlArm_mutC3(key) ==
    CASE key = "b" -> B1("close branch", "close_branch",
                         "branch to close (ctrl+c to cancel): ")
      [] key = "r" -> B0("merge taking local", "take_other")
      [] OTHER -> NoBinding

\* A control arm without the 'r' arm.
ControlArm_mutC14(key) ==
    CASE key = "b" -> B1("close branch", "close_branch",
                         "branch to close (ctrl+c to cancel): ")
      [] OTHER -> NoBinding

\* The match of handle_key for is_control_held: for each arm the banner
\* name, the prompt shown (if any) and the backend operation called.
ControlArm(key) ==
    CASE key = "b" -> B1("close branch", "close_branch",
                         "branch to close (ctrl+c to cancel): ")
      [] key = "r" -> B0("merge taking local", "take_local")
      [] OTHER -> NoBinding

\* The match of handle_key for a plain character.
PlainArm(key) ==
        CASE key = "h" -> [kind |-> "help", name |-> "help",
                           op |-> "version", prompt |-> ""]
          [] key = "e" -> [kind |-> "explorer", name |-> "explorer",
                           op |-> "", prompt |-> ""]
          [] key = "s" -> B0("status", "status")
          [] key = "l" -> B0("log", "log")
          [] key = "d" -> B1("revision changes", "changes",
                             "show changes from (ctrl+c to cancel): ")
          [] key = "D" -> B1("revision diff", "diff",
                             "show diff from (ctrl+c to cancel): ")
          [] key = "c" -> B1("commit all", "commit_all",
                             "commit message (ctrl+c to cancel): ")
          [] key = "C" -> [kind |-> "select", name |-> "commit selected",
                           op |-> "commit_selected",
                           prompt |-> "commit message (ctrl+c to cancel): "]
          [] key = "U" -> B0("revert", "revert")
          [] key = "u" -> B1("update", "update",
                             "update to (ctrl+c to cancel): ")
          [] key = "m" -> B1("merge", "merge",
                             "merge with (ctrl+c to cancel): ")
          [] key = "r" -> B0("unresolved conflicts", "conflicts")
          [] key = "R" -> B0("merge taking other", "take_other")
          [] key = "f" -> B0("fetch", "fetch")
          [] key = "p" -> B0("pull", "pull")
          [] key = "P" -> B0("push", "push")
          [] key = "T" -> B1("tag", "create_tag",
                             "tag name (ctrl+c to cancel): ")
          [] key = "b" -> B0("branches", "list_branches")
          [] key = "B" -> B1("branch", "create_branch",
                             "branch name (ctrl+c to cancel): ")
          [] OTHER -> NoBinding

\* handle_key: the arm selected by (key, is_control_held).
Binding(key, is_control_held) ==
    IF is_control_held THEN ControlArm(key) ELSE PlainArm(key)

\* A quit test that forgets the modifier.
IsQuit_mutC8(key) == key.ch = "c"

\* A quit test on the plain character.
IsQuit_mutC18(key) == key.type = "Char" /\ key.ch = "c"

\* The quit arm of the loop in show: Key::Ctrl('c') => break.
IsQuit(key) == key.type = "Ctrl" /\ key.ch = "c"

\* A call that passes only the included Entries.
backend_call_mutC4(binding, input, es) ==
    IF binding.kind = "select"
    THEN [op |-> binding.op, arg |-> input,
          e |-> SelectSeq(es, LAMBDA x : x.included)]
    ELSE [op |-> binding.op, arg |-> input, e |-> <<>>]

\* A call that passes every Entry as included.
backend_call_mutC16(binding, input, es) ==
    IF binding.kind = "select"
    THEN [op |-> binding.op, arg |-> input,
          e |-> [i \in DOMAIN es |-> [es[i] EXCEPT !.included = TRUE]]]
    ELSE [op |-> binding.op, arg |-> input, e |-> <<>>]

\* The backend call an arm makes once its inputs are there: the operation,
\* the prompted line (&input[..]) and, for commit_selected, &entries.
backend_call(binding, input, es) ==
    IF binding.kind = "select"
    THEN [op |-> binding.op, arg |-> input, e |-> es]
    ELSE [op |-> binding.op, arg |-> input, e |-> <<>>]

\* ------------------------------------------------------- selection list UI
\* draw_select of the select module: draws the list, reads one key, moves
\* the current index with wraparound, toggles the current Entry, or exits
\* Confirmed or Aborted.  cont is its return value: TRUE to draw again.
draw_select_render(o, es, idx) ==
    Append(o, Ev("write", "list", ToString(idx), es))

draw_select(es, idx, key) ==
    CASE key = "down" /\ Len(es) > 0 ->
            [entries |-> es, index |-> (idx + 1) % Len(es), cont |-> TRUE,
             exit |-> "none"]
      [] key = "up" /\ Len(es) > 0 ->
            [entries |-> es, index |-> (idx + Len(es) - 1) % Len(es),
             cont |-> TRUE, exit |-> "none"]
      [] key = "toggle" /\ Len(es) > 0 ->
            [entries |-> [es EXCEPT ![idx + 1].included = ~@],
             index |-> idx, cont |-> TRUE, exit |-> "none"]
      [] key = "confirm" ->
            [entries |-> es, index |-> idx, cont |-> FALSE,
             exit |-> "Confirmed"]
      [] key = "abort" ->
            [entries |-> es, index |-> idx, cont |-> FALSE,
             exit |-> "Aborted"]
      [] OTHER ->
            [entries |-> es, index |-> idx, cont |-> TRUE, exit |-> "none"]

\* One pass of the loop of show_add_remove_ui up to draw_select's key read.
show_add_remove_ui_draw(o, es, idx) ==
    draw_select_render(show_action(Append(o, W("clear", "")),
                                   "commit selected"), es, idx)

\* ------------------------------------------------------------- transitions
VersionPanic == "Could not find version control in system"
ExplorerPanic == "failed to open explorer"

\* The loop iteration ends: stdout.flush(), and the loop reads the next key.
\* The locals of the arm (entries, index) are dropped.
Finish(o) ==
    /\ pc' = "idle"
    /\ log' = loop_flush(o)
    /\ inflight' = NoCall
    /\ pending' = NoBinding
    /\ entries' = <<>>
    /\ index' = 0
    /\ selExit' = "none"
    /\ selSteps' = 0
    /\ UNCHANGED <<acquired, released, exit>>

\* A panic that ends the process without dropping the guard.
Panic_mutC6(o, message) ==
    /\ pc' = "dead"
    /\ log' = o
    /\ exit' = message
    /\ inflight' = NoCall
    /\ pending' = NoBinding
    /\ entries' = <<>>
    /\ index' = 0
    /\ selExit' = "none"
    /\ selSteps' = 0
    /\ UNCHANGED <<acquired, released>>

\* panic!/expect: the stack unwinds through show_tui, the Tui temporary and
\* with it the RawTerminal guard are dropped, the process ends.
Panic(o, message) ==
    /\ pc' = "dead"
    /\ log' = o
    /\ exit' = message
    /\ released' = released + 1
    /\ inflight' = NoCall
    /\ pending' = NoBinding
    /\ entries' = <<>>
    /\ index' = 0
    /\ selExit' = "none"
    /\ selSteps' = 0
    /\ UNCHANGED acquired

\* A call that does not block the thread.
StartCall_mutC17(o, c) ==
    /\ pc' = pc
    /\ log' = Append(o, Call(c.op, c.arg, c.e))
    /\ inflight' = c
    /\ UNCHANGED <<acquired, released, exit, probe>>

\* A backend operation is called; the thread blocks until it returns.
StartCall(o, c) ==
    /\ pc' = "backend"
    /\ log' = Append(o, Call(c.op, c.arg, c.e))
    /\ inflight' = c
    /\ UNCHANGED <<acquired, released, exit, probe>>

\* show_tui up to the first blocking point: into_raw_mode(), Tui::new,
\* show(): show_header, show_help up to version().
ShowTui ==
    /\ pc = "start"
    /\ acquired' = acquired + 1
    /\ pc' = "backend"
    /\ log' = Append(show_help_begin(show_header(
                        <<Ev("raw", "acquire", "", <<>>)>>)),
                     Call("version", "", <<>>))
    /\ inflight' = [op |-> "version", arg |-> "", e |-> <<>>]
    /\ UNCHANGED <<released, probe, exit, pending, entries, index, selExit,
                   selSteps, eof>>

\* A show_help that reports the error and carries on.
version_err_mutC7(o, error) ==
    /\ pc' = "idle"
    /\ log' = show_help_err(o, error)
    /\ probe' = IF probe = "pending" THEN "failed" ELSE probe
    /\ inflight' = NoCall
    /\ UNCHANGED <<acquired, released, exit, pending, entries, index,
                   selExit, selSteps>>

\* show_help: version() returned Err: the error text, then panic!.
version_err(o, error) ==
    /\ Panic(show_help_err(o, error), VersionPanic)
    /\ probe' = IF probe = "pending" THEN "failed" ELSE probe

\* show_help: version() returned Ok: the listing.  At startup show returns
\* from show_help into the loop; under 'h' the arm and the iteration end.
version_ok(o, version) ==
    IF probe = "pending"
    THEN /\ pc' = "idle"
         /\ log' = show_help_ok(o, version)
         /\ probe' = "ok"
         /\ inflight' = NoCall
         /\ UNCHANGED <<acquired, released, exit, pending, entries, index,
                        selExit, selSteps>>
    ELSE /\ Finish(show_help_ok(o, version))
         /\ UNCHANGED probe

\* A 'C' arm that opens the selection list on a failed query too.
files_returned_mutC13(o, r) ==
    /\ pc' = "select"
    /\ entries' = r.e
    /\ index' = 0
    /\ selSteps' = 0
    /\ selExit' = "none"
    /\ log' = show_add_remove_ui_draw(
                  IF r.a = "Ok" THEN o ELSE handle_result(o, r), r.e, 0)
    /\ inflight' = NoCall
    /\ UNCHANGED <<acquired, released, exit, probe, pending>>

\* A 'C' arm that skips the selection list.
files_returned_mutC15(o, r) ==
    IF r.a = "Ok"
    THEN /\ pc' = "prompt"
         /\ entries' = r.e
         /\ index' = 0
         /\ selSteps' = 0
         /\ selExit' = "none"
         /\ log' = handle_input_begin(Append(o, W("newlines", "")),
                                      pending.prompt)
         /\ inflight' = NoCall
         /\ UNCHANGED <<acquired, released, exit, probe, pending>>
    ELSE /\ Finish(handle_result(o, r))
         /\ UNCHANGED probe

\* 'C': get_files_to_commit() returned.  Ok(entries): show_add_remove_ui
\* starts with index 0.  Err(error): handle_result(Err(error)).
files_returned(o, r) ==
    IF r.a = "Ok"
    THEN /\ pc' = "select"
         /\ entries' = r.e
         /\ index' = 0
         /\ selSteps' = 0
         /\ selExit' = "none"
         /\ log' = show_add_remove_ui_draw(o, r.e, 0)
         /\ inflight' = NoCall
         /\ UNCHANGED <<acquired, released, exit, probe, pending>>
    ELSE /\ Finish(handle_result(o, r))
         /\ UNCHANGED probe

\* The backend operation in flight returns r.
BackendReturn(r) ==
    /\ pc = "backend"
    /\ UNCHANGED eof
    /\ LET o == Append(log, Ret(r)) IN
       CASE inflight.op = "version" ->
                /\ r \in TextResults
                /\ IF r.a = "Ok" THEN version_ok(o, r.b)
                                 ELSE version_err(o, r.b)
         [] inflight.op = "get_files_to_commit" ->
                /\ r \in EntryResults
                /\ files_returned(o, r)
         [] OTHER ->
                /\ r \in TextResults
                /\ Finish(handle_result(o, r))
                /\ UNCHANGED probe

\* handle_key: the arm selected by (key, is_control_held), up to its first
\* blocking point; o is the log of this iteration so far.
handle_key(o, key, is_control_held) ==
    LET b == Binding(key, is_control_held)
        o1 == show_action(o, b.name)
    IN
    CASE b.kind = "none" ->
            /\ Finish(o)
            /\ UNCHANGED probe
      [] b.kind = "help" ->
            /\ StartCall(show_help_begin(o1),
                         [op |-> "version", arg |-> "", e |-> <<>>])
            /\ UNCHANGED <<pending, entries, index, selExit, selSteps>>
      [] b.kind = "explorer" ->
            \E spawned \in BOOLEAN :
                LET o2 == Append(o1, Ev("spawn",
                                        IF spawned THEN "Ok" ELSE "Err",
                                        RepositoryName, <<>>))
                IN IF spawned
                   THEN /\ Finish(open_explorer_ok(o2))
                        /\ UNCHANGED probe
                   ELSE /\ Panic(o2, ExplorerPanic)
                        /\ UNCHANGED probe
      [] b.kind = "direct" ->
            /\ StartCall(o1, backend_call(b, "", <<>>))
            /\ UNCHANGED <<pending, entries, index, selExit, selSteps>>
      [] b.kind = "prompt" ->
            /\ pc' = "prompt"
            /\ log' = handle_input_begin(o1, b.prompt)
            /\ pending' = b
            /\ UNCHANGED <<acquired, released, probe, exit, inflight,
                           entries, index, selExit, selSteps>>
      [] b.kind = "select" ->
            /\ StartCall(o1, [op |-> "get_files_to_commit", arg |-> "",
                              e |-> <<>>])
            /\ pending' = b
            /\ UNCHANGED <<entries, index, selExit, selSteps>>

\* The loop of show reads a key event; the key stream has not ended.
ReadKey(key) ==
    /\ pc = "idle"
    /\ ~eof
    /\ UNCHANGED eof
    /\ LET o == <<Ev("key", key.ch, key.type, <<>>)>> IN
       IF IsQuit(key)
       THEN \* break: show returns, the Tui temporary is dropped
            /\ pc' = "exited"
            /\ exit' = "quit"
            /\ released' = released + 1
            /\ log' = o
            /\ UNCHANGED <<acquired, probe, inflight, pending, entries,
                           index, selExit, selSteps>>
       ELSE IF key.type = "Other"
       THEN /\ Finish(o)
            /\ UNCHANGED probe
       ELSE handle_key(o, key.ch, key.type = "Ctrl")

\* A loop that takes the end of the key stream for the quit key.
ReadNoKey_mutC19 ==
    /\ pc = "idle"
    /\ \E kind \in {"Err", "Eof"} :
           /\ eof => kind = "Eof"
           /\ eof' = (eof \/ kind = "Eof")
           /\ IF kind = "Eof"
              THEN /\ pc' = "exited"
                   /\ exit' = "quit"
                   /\ released' = released + 1
                   /\ log' = <<Ev("nokey", kind, "", <<>>)>>
                   /\ UNCHANGED <<acquired, probe, inflight, pending,
                                  entries, index, selExit, selSteps>>
              ELSE /\ Finish(<<Ev("nokey", kind, "", <<>>)>>)
                   /\ UNCHANGED probe

\* keys().next() yields Some(Err(_)), or None at the end of the key stream:
\* the `if let` does not match and the iteration only flushes.  Once the
\* stream has ended every later read yields None.
ReadNoKey ==
    /\ pc = "idle"
    /\ \E kind \in {"Err", "Eof"} :
           /\ eof => kind = "Eof"
           /\ eof' = (eof \/ kind = "Eof")
           /\ Finish(<<Ev("nokey", kind, "", <<>>)>>)
    /\ UNCHANGED probe

\* handle_input: readline returned; the arm goes on with Some(input) or
\* ends with None.
Readline(readline) ==
    /\ pc = "prompt"
    /\ UNCHANGED eof
    /\ LET res == handle_input_end(
                     Append(log, Ev("readline", readline.a, readline.b,
                                    <<>>)), readline)
       IN IF res.some
          THEN /\ StartCall(res.out,
                            backend_call(pending, res.input, entries))
               /\ UNCHANGED <<pending, entries, index, selExit, selSteps>>
          ELSE /\ Finish(res.out)
               /\ UNCHANGED probe

\* show_add_remove_ui: draw_select read a key.  While it returns true the
\* loop draws again; when it returns false the 'C' arm writes "\n\n" and
\* opens the commit message prompt.
SelectKey(key) ==
    /\ pc = "select"
    /\ key \in {"confirm", "abort"} \/ selSteps < MaxSelSteps
    /\ LET d == draw_select(entries, index, key)
           o == Append(log, Ev("select", key, "", <<>>))
       IN /\ entries' = d.entries
          /\ index' = d.index
          /\ selExit' = d.exit
          /\ IF d.cont
             THEN /\ pc' = "select"
                  /\ selSteps' = selSteps + 1
                  /\ log' = show_add_remove_ui_draw(o, d.entries, d.index)
             ELSE /\ pc' = "prompt"
                  /\ selSteps' = selSteps
                  /\ log' = handle_input_begin(
                                Append(o, W("newlines", "")), pending.prompt)
    /\ UNCHANGED <<acquired, released, probe, exit, inflight, pending, eof>>

Init ==
    /\ pc = "start"
    /\ log = <<>>
    /\ acquired = 0
    /\ released = 0
    /\ probe = "pending"
    /\ exit = "none"
    /\ inflight = NoCall
    /\ pending = NoBinding
    /\ entries = <<>>
    /\ index = 0
    /\ selExit = "none"
    /\ selSteps = 0
    /\ eof = FALSE

Next ==
    \/ ShowTui
    \/ \E r \in TextResults \cup EntryResults : BackendReturn(r)
    \/ \E key \in KeyEvents : ReadKey(key)
    \/ ReadNoKey
    \/ \E readline \in ReadlineResults : Readline(readline)
    \/ \E key \in SelectKeys : SelectKey(key)

Spec == Init /\ [][Next]_vars

\* -------------------------------------------------------------- properties
\* The log of a loop iteration that read a key starts with that key.
IsDispatchLog == Len(log) > 0 /\ log[1].k = "key"
KeyIs(ch, type) == IsDispatchLog /\ log[1].a = ch /\ log[1].b = type

CallsIn(l) == SelectSeq(l, LAMBDA ev : ev.k = "call")
IsCancel(ev) == ev.k = "readline" /\ ev.a \in {"Interrupted", "Eof"}
IsBanner(ev) == ev.k = "write" /\ ev.a \in {"done", "error"}
Terminated == pc \in {"exited", "dead"}

\* The keys whose action asks for a text prompt.
PromptKeys == {<<"b", "Ctrl">>, <<"d", "Char">>, <<"D", "Char">>,
               <<"c", "Char">>, <<"C", "Char">>, <<"u", "Char">>,
               <<"m", "Char">>, <<"T", "Char">>, <<"B", "Char">>}

\* C1 as stated: when the prompt of an action is cancelled (interrupt or
\* end of input), no backend operation at all was called in that dispatch
\* and the cancel banner follows.
C1_Original ==
    \A i \in DOMAIN log :
        IsCancel(log[i]) =>
            /\ CallsIn(log) = <<>>
            /\ i < Len(log)
            /\ log[i + 1] = W("canceled", "")

\* C1 amended: when the prompt of an action is cancelled, the cancel banner
\* follows, the dispatch ends in Idle, and the only backend operation that
\* was called in that dispatch is, for commit selected, the
\* get_files_to_commit query that precedes the prompt; the action's own
\* operation is not called.
C1_Cancel ==
    \A i \in DOMAIN log :
        IsCancel(log[i]) =>
            /\ <<log[1].a, log[1].b>> \in PromptKeys
            /\ i + 2 = Len(log)
            /\ log[i + 1] = W("canceled", "")
            /\ log[i + 2] = Flush("loop")
            /\ pc = "idle"
            /\ CallsIn(log) = IF KeyIs("C", "Char")
                              THEN <<Call("get_files_to_commit", "", <<>>)>>
                              ELSE <<>>

C1_Witness ==
    /\ KeyIs("C", "Char")
    /\ \E i \in DOMAIN log : IsCancel(log[i]) /\ log[i].a = "Eof"
    /\ pc = "idle"

\* The (character, modifier) pairs of the binding table, the quit
\* combination included.
BoundPairs ==
    {<<ch, "Char">> : ch \in {"h", "e", "s", "l", "d", "D", "c", "C", "U",
                              "u", "m", "r", "R", "f", "p", "P", "T", "b",
                              "B"}}
    \cup {<<"b", "Ctrl">>, <<"r", "Ctrl">>, <<"c", "Ctrl">>}

\* C2: dispatching a key that is not in the binding table, or a key event
\* that is neither a character nor a control character, calls no backend
\* operation, opens no prompt or selection, writes nothing (the iteration
\* consists of the key and the loop's flush) and leaves the session Idle.
C2_Unmapped ==
    (IsDispatchLog /\ <<log[1].a, log[1].b>> \notin BoundPairs) =>
        /\ log = <<log[1], Flush("loop")>>
        /\ pc = "idle"
        /\ inflight = NoCall
        /\ pending = NoBinding

C2_Witness ==
    /\ KeyIs("s", "Ctrl")
    /\ pc = "idle"
    /\ Len(log) = 2

\* The bindings C3 lists: character, modifier, operation, takes text.
C3Table ==
    { <<"s", "Char", "status", FALSE>>, <<"l", "Char", "log", FALSE>>,
      <<"d", "Char", "changes", TRUE>>, <<"D", "Char", "diff", TRUE>>,
      <<"c", "Char", "commit_all", TRUE>>, <<"U", "Char", "revert", FALSE>>,
      <<"u", "Char", "update", TRUE>>, <<"m", "Char", "merge", TRUE>>,
      <<"r", "Char", "conflicts", FALSE>>,
      <<"R", "Char", "take_other", FALSE>>,
      <<"r", "Ctrl", "take_local", FALSE>>,
      <<"f", "Char", "fetch", FALSE>>, <<"p", "Char", "pull", FALSE>>,
      <<"P", "Char", "push", FALSE>>, <<"T", "Char", "create_tag", TRUE>>,
      <<"b", "Char", "list_branches", FALSE>>,
      <<"B", "Char", "create_branch", TRUE>>,
      <<"b", "Ctrl", "close_branch", TRUE>> }

\* The lines the prompt returned in this iteration.
LinesEntered ==
    SelectSeq(log, LAMBDA ev : ev.k = "readline" /\ ev.a = "Ok")

\* C3: for each listed binding a dispatch calls at most one backend
\* operation, and only the listed one; an action without text calls it
\* once with no argument; an action with text calls it exactly once when
\* the prompt returned a line, with exactly that line as the argument.
C3_Bindings ==
    \A t \in C3Table :
        KeyIs(t[1], t[2]) =>
            LET calls == CallsIn(log) IN
            /\ Len(calls) <= 1
            /\ \A i \in DOMAIN calls :
                   /\ calls[i].a = t[3]
                   /\ calls[i].e = <<>>
            /\ ~t[4] => /\ Len(calls) = 1
                        /\ calls[1].b = ""
            /\ t[4] => /\ Len(calls) = Len(LinesEntered)
                       /\ \A i \in DOMAIN calls :
                              calls[i].b = LinesEntered[i].b

C3_Witness ==
    /\ KeyIs("d", "Char")
    /\ CallsIn(log) = <<Call("changes", "", <<>>)>>
    /\ Len(LinesEntered) = 1
    /\ pc = "idle"

Range(s) == {s[i] : i \in DOMAIN s}
IsListDraw(ev) == ev.k = "write" /\ ev.a = "list"
IsConfirm(ev) == ev.k = "select" /\ ev.a = "confirm"
IsAbort(ev) == ev.k = "select" /\ ev.a = "abort"
IsCommitSelected(ev) == ev.k = "call" /\ ev.a = "commit_selected"

\* The Entry list the selection UI showed when key event i was read: the
\* last list drawn before position i.
ShownAt(i) ==
    LET j == CHOOSE j \in 1..(i - 1) :
                 /\ IsListDraw(log[j])
                 /\ \A j2 \in (j + 1)..(i - 1) : ~IsListDraw(log[j2])
    IN log[j].e

\* C4 as stated: after a Confirmed exit, the set of Entries passed to
\* commit_selected is exactly the set of Entries whose included flag was
\* true at confirmation time.
C4_Original ==
    \A c, i \in DOMAIN log :
        (IsConfirm(log[c]) /\ IsCommitSelected(log[i])) =>
            Range(log[i].e) = {x \in Range(ShownAt(c)) : x.included}

\* C4 amended: after a Confirmed exit, commit_selected is passed the whole
\* Entry sequence, excluded Entries too, each with the included flag it had
\* at confirmation time; so the Entries passed with included = true are
\* exactly those whose flag was true at confirmation time.
C4_Selected ==
    \A c, i \in DOMAIN log :
        (IsConfirm(log[c]) /\ IsCommitSelected(log[i])) =>
            /\ c < i
            /\ log[i].e = ShownAt(c)
            /\ {x \in Range(log[i].e) : x.included}
                   = {x \in Range(ShownAt(c)) : x.included}

C4_Witness ==
    \E c, i, t \in DOMAIN log :
        /\ IsConfirm(log[c])
        /\ IsCommitSelected(log[i])
        /\ log[t].k = "select" /\ log[t].a = "toggle"
        /\ \E x, y \in Range(log[i].e) : x.included /\ ~y.included

\* C5: when the selection list exits Aborted, no commit message prompt is
\* opened and commit_selected is not called in that dispatch, and the
\* dispatch ends with the cancel banner.
C5_AbortStops ==
    \A i \in DOMAIN log :
        IsAbort(log[i]) =>
            /\ \A j \in (i + 1)..Len(log) :
                   /\ ~(log[j].k = "write" /\ log[j].a = "prompt")
                   /\ ~IsCommitSelected(log[j])
            /\ pc # "prompt"
            /\ pc = "idle" => \E j \in (i + 1)..Len(log) :
                                  log[j] = W("canceled", "")

\* C6: the raw-mode guard is acquired exactly once, by the first step of
\* show_tui and before anything is written or read; it is released exactly
\* once, when the session ends, on each exit path (quit key, version
\* failure, file browser launch failure), and not while the loop runs.
C6_Guard ==
    /\ acquired \in {0, 1}
    /\ released \in {0, 1}
    /\ (pc = "start") <=> (acquired = 0)
    /\ pc = "start" => log = <<>>
    /\ (probe = "pending" /\ log # <<>>) =>
           /\ log[1] = Ev("raw", "acquire", "", <<>>)
           /\ \A i \in 2..Len(log) : log[i].k # "raw"
    /\ Terminated <=> (released = 1)
    /\ Terminated <=> (exit # "none")
    /\ exit \in {"none", "quit", VersionPanic, ExplorerPanic}

C6_Witness ==
    /\ pc = "dead"
    /\ exit = ExplorerPanic
    /\ acquired = 1
    /\ released = 1

\* C7: when version() fails at startup the session ends before the loop:
\* no key is read, nothing is dispatched, and version() is the only backend
\* operation that was called.
C7_ProbeFails ==
    probe = "failed" =>
        /\ pc = "dead"
        /\ exit = VersionPanic
        /\ \A i \in DOMAIN log :
               log[i].k \notin {"key", "nokey", "readline", "select",
                                "spawn"}
        /\ CallsIn(log) = <<Call("version", "", <<>>)>>

C7_Witness ==
    /\ probe = "failed"
    /\ pc = "dead"

\* C8 as stated: once the startup probe has succeeded, only the quit key
\* ends the session.
C8_Original ==
    (probe = "ok" /\ Terminated) => exit = "quit"

\* C8 amended: the fatal conditions are a version() failure whenever the
\* help listing is rendered (at startup, and under 'h') and a failure to
\* launch the file browser under 'e'.  Once the startup probe has
\* succeeded, the session ends only by reading ctrl+c in the loop, by
\* version() failing under 'h', or by the launch failing under 'e'; no
\* other key and no other backend outcome ends it.
C8_Fatal ==
    (probe = "ok" /\ Terminated) =>
        \/ /\ exit = "quit"
           /\ pc = "exited"
           /\ log = <<Ev("key", "c", "Ctrl", <<>>)>>
        \/ /\ exit = VersionPanic
           /\ pc = "dead"
           /\ KeyIs("h", "Char")
           /\ \E i \in 2..Len(log) :
                  /\ log[i - 1] = Call("version", "", <<>>)
                  /\ log[i].k = "ret" /\ log[i].a = "Err"
        \/ /\ exit = ExplorerPanic
           /\ pc = "dead"
           /\ KeyIs("e", "Char")
           /\ log[Len(log)] = Ev("spawn", "Err", RepositoryName, <<>>)

C8_Witness ==
    /\ probe = "ok"
    /\ pc = "dead"
    /\ exit = VersionPanic

Banner(r) == IF r = "Ok" THEN W("done", "") ELSE W("error", "")
BannerCount == Cardinality({j \in DOMAIN log : IsBanner(log[j])})

\* C9 as stated: whatever backend operation a dispatched action calls, the
\* returned text is written, followed by exactly one outcome banner, done
\* for success and error for failure; after a failure the session is Idle.
C9_Original ==
    IsDispatchLog =>
        \A i \in DOMAIN log :
            log[i].k = "ret" =>
                /\ i + 2 <= Len(log)
                /\ log[i + 1] = W("text", log[i].b)
                /\ log[i + 2] = Banner(log[i].a)
                /\ BannerCount = 1
                /\ log[i].a = "Err" => pc = "idle"

\* The returns that go through handle_result: every one but that of
\* version() and a successful get_files_to_commit.
IsOutcome(i) ==
    /\ i > 1
    /\ log[i].k = "ret"
    /\ log[i - 1].k = "call"
    /\ log[i - 1].a # "version"
    /\ ~(log[i - 1].a = "get_files_to_commit" /\ log[i].a = "Ok")

\* C9 amended: for every backend operation a dispatched action calls,
\* except version() under 'h' and a successful get_files_to_commit, the
\* returned text is written verbatim, followed by exactly one outcome
\* banner, done for success and error for failure; the iteration then ends
\* and the session is Idle, after a failure as after a success.
C9_Outcome ==
    IsDispatchLog =>
        \A i \in DOMAIN log :
            IsOutcome(i) =>
                /\ i + 3 = Len(log)
                /\ log[i + 1] = W("text", log[i].b)
                /\ log[i + 2] = Banner(log[i].a)
                /\ log[i + 3] = Flush("loop")
                /\ BannerCount = 1
                /\ pc = "idle"

C9_Witness ==
    /\ KeyIs("s", "Char")
    /\ pc = "idle"
    /\ \E i \in DOMAIN log : IsOutcome(i) /\ log[i].a = "Err"
                                 /\ log[i].b = "fatal"

IsIterationLog == Len(log) > 0 /\ log[1].k \in {"key", "nokey"}
FlushPositions == {i \in DOMAIN log : log[i].k = "flush"}

\* C10 as stated: in a loop iteration the only explicit flush is the one
\* that ends the iteration, after the dispatch.
C10_Original ==
    IsIterationLog =>
        /\ \A i \in FlushPositions : i = Len(log) /\ pc = "idle"
        /\ pc = "idle" => Cardinality(FlushPositions) = 1

\* C10 amended: the loop flushes exactly once per iteration, as the last
\* step of the iteration after the dispatch; besides that, every header
\* redraw (show_header, so every action banner and every redraw of the
\* selection list) flushes right after the header is written, and nothing
\* else flushes.
C10_Flush ==
    IsIterationLog =>
        /\ pc = "idle" => log[Len(log)] = Flush("loop")
        /\ \A i \in FlushPositions :
               \/ /\ i = Len(log)
                  /\ pc = "idle"
                  /\ log[i] = Flush("loop")
               \/ /\ i > 1
                  /\ log[i - 1] = W("header", RepositoryName)
                  /\ log[i] = Flush("show_header")
        /\ \A i \in DOMAIN log :
               log[i] = W("header", RepositoryName) =>
                   /\ i < Len(log)
                   /\ log[i + 1] = Flush("show_header")

C10_Witness ==
    /\ KeyIs("s", "Char")
    /\ pc = "idle"
    /\ Cardinality(FlushPositions) = 2

\* The log of the startup starts with the acquisition of the guard.
IsStartupLog == Len(log) > 0 /\ log[1].k = "raw"
IsHelpRow(ev) ==
    ev.k = "write" /\ \E r \in DOMAIN HelpTable :
                          ev.a = "help:" \o HelpTable[r][1]

\* C11 as stated: rendering the help listing, at startup or under 'h',
\* makes no backend call.
C11_Original ==
    (IsStartupLog \/ KeyIs("h", "Char")) => CallsIn(log) = <<>>

\* C11 amended: the header, the action banner and the outcome banner call
\* no backend operation: every backend call comes right after an action
\* banner, the help title or a line entered in the prompt, and the file
\* browser action, which only renders banners, calls nothing.  Rendering
\* the help listing calls version() exactly once, at startup and under 'h',
\* and nothing else.
C11_Render ==
    /\ (IsStartupLog \/ KeyIs("h", "Char")) =>
           CallsIn(log) = <<Call("version", "", <<>>)>>
    /\ KeyIs("e", "Char") => CallsIn(log) = <<>>
    /\ \A i \in DOMAIN log :
           log[i].k = "call" =>
               /\ i > 1
               /\ \/ log[i - 1].k = "write" /\ log[i - 1].a = "action"
                  \/ log[i - 1] = W("title", VERSION)
                  \/ log[i - 1].k = "readline" /\ log[i - 1].a = "Ok"
               /\ log[i].a = "version" <=> log[i - 1] = W("title", VERSION)

C11_Witness ==
    /\ KeyIs("h", "Char")
    /\ pc = "idle"
    /\ \E i \in DOMAIN log : IsHelpRow(log[i])
    /\ CallsIn(log) = <<Call("version", "", <<>>)>>

\* C12: when readline fails with an error that is neither interrupt nor end
\* of input, the failure is reported, the action's backend operation is not
\* called, and the session does not end: the iteration finishes and the
\* session is Idle.
C12_InputError ==
    \A i \in DOMAIN log :
        (log[i].k = "readline" /\ log[i].a = "Err") =>
            /\ <<log[1].a, log[1].b>> \in PromptKeys
            /\ i + 2 = Len(log)
            /\ log[i + 1] = W("inputerr", "")
            /\ log[i + 2] = Flush("loop")
            /\ pc = "idle"
            /\ exit = "none"
            /\ released = 0
            /\ CallsIn(log) = IF KeyIs("C", "Char")
                              THEN <<Call("get_files_to_commit", "", <<>>)>>
                              ELSE <<>>

C12_Witness ==
    /\ KeyIs("T", "Char")
    /\ \E i \in DOMAIN log : log[i].k = "readline" /\ log[i].a = "Err"
    /\ pc = "idle"

IsQueryFailure(i) ==
    /\ i > 1
    /\ log[i].k = "ret" /\ log[i].a = "Err"
    /\ log[i - 1] = Call("get_files_to_commit", "", <<>>)

\* C13: when get_files_to_commit fails in a selective commit, the error
\* text and the error banner are rendered and the dispatch stops: the
\* selection list is not entered, no commit message prompt is shown and
\* commit_selected is not called.
C13_QueryFails ==
    \A i \in DOMAIN log :
        IsQueryFailure(i) =>
            /\ KeyIs("C", "Char")
            /\ Len(log) = i + 3
            /\ log[i + 1] = W("text", log[i].b)
            /\ log[i + 2] = W("error", "")
            /\ log[i + 3] = Flush("loop")
            /\ pc = "idle"
            /\ \A j \in DOMAIN log :
                   /\ ~IsListDraw(log[j])
                   /\ log[j].k # "select"
                   /\ ~(log[j].k = "write" /\ log[j].a = "prompt")
                   /\ log[j].k # "readline"
                   /\ ~IsCommitSelected(log[j])

C13_Witness ==
    /\ \E i \in DOMAIN log : IsQueryFailure(i) /\ log[i].b = "fatal"
    /\ pc = "idle"

\* The help listing writes a binding as its lower-case character, with
\* "shift+" for an upper-case character and "ctrl+" for a control character.
LowerOf ==
    [ch \in {"D", "C", "U", "R", "P", "T", "B"} |->
        CASE ch = "D" -> "d" [] ch = "C" -> "c" [] ch = "U" -> "u"
          [] ch = "R" -> "r" [] ch = "P" -> "p" [] ch = "T" -> "t"
          [] ch = "B" -> "b"]

ShortcutOf(ch, type) ==
    IF type = "Ctrl" THEN "ctrl+" \o ch
    ELSE IF ch \in DOMAIN LowerOf THEN "shift+" \o LowerOf[ch]
    ELSE ch

\* The (character, modifier) pairs for which handle_key has an arm.
DispatchedPairs ==
    {p \in Chars \X {"Char", "Ctrl"} :
        Binding(p[1], p[2] = "Ctrl").kind # "none"}

HelpRowsIn(l) == {l[i].a : i \in {j \in DOMAIN l : IsHelpRow(l[j])}}
ActionBanners == {log[i].b : i \in {j \in DOMAIN log :
                                        log[j].k = "write"
                                        /\ log[j].a = "action"}}

\* The text the help listing shows for a shortcut, with or without the
\* blank line that ends a group.
HelpNames(shortcut) ==
    {HelpTable[r][2] : r \in {q \in DOMAIN HelpTable :
                                  HelpTable[q][1] = shortcut}}
ListedAs(shortcut, name) ==
    HelpNames(shortcut) \in {{name}, {name \o "\n"}}

\* The help listing lists exactly the bindings handle_key dispatches, and a
\* key gets an action banner exactly when the listing has it.
C14_SameBindings ==
    /\ (\E i \in DOMAIN log : IsHelpRow(log[i])) =>
           HelpRowsIn(log) = {"help:" \o ShortcutOf(p[1], p[2]) :
                                 p \in DispatchedPairs}
    /\ (IsDispatchLog /\ log[1].b \in {"Char", "Ctrl"}
            /\ ~(pc = "exited")) =>
           ((ActionBanners # {})
               <=> HelpNames(ShortcutOf(log[1].a, log[1].b)) # {})

\* C14 as stated: the help listing lists exactly the bindings handle_key
\* dispatches, each with the name the action's banner shows.
C14_Original ==
    /\ C14_SameBindings
    /\ IsDispatchLog =>
           \A name \in ActionBanners :
               ListedAs(ShortcutOf(log[1].a, log[1].b), name)

\* The bindings whose help text is not the banner's name: shortcut, banner
\* name, help text.
RenamedInHelp ==
    { <<"u", "update", "update/checkout">>,
      <<"shift+r", "merge taking other", "resolve taking other">>,
      <<"ctrl+r", "merge taking local", "resolve taking local">>,
      <<"shift+t", "tag", "create tag">>,
      <<"b", "branches", "list branches">>,
      <<"shift+b", "branch", "create branch">> }

\* C14 amended: the help listing lists exactly the bindings handle_key
\* dispatches and nothing else.  Fifteen of them are listed with the name
\* the action's banner shows; six are listed under another text: update
\* (update/checkout), merge taking other (resolve taking other), merge
\* taking local (resolve taking local), tag (create tag), branches (list
\* branches) and branch (create branch).
C14_Help ==
    /\ C14_SameBindings
    /\ IsDispatchLog =>
           LET shortcut == ShortcutOf(log[1].a, log[1].b) IN
           \A name \in ActionBanners :
               IF \E t \in RenamedInHelp : t[1] = shortcut
               THEN \E t \in RenamedInHelp :
                        /\ t[1] = shortcut
                        /\ t[2] = name
                        /\ ListedAs(shortcut, t[3])
                        /\ ~ListedAs(shortcut, name)
               ELSE ListedAs(shortcut, name)

C14_Witness ==
    /\ KeyIs("r", "Ctrl")
    /\ ActionBanners = {"merge taking local"}
    /\ ListedAs("ctrl+r", "resolve taking local")
    /\ pc = "idle"

IsPromptWrite(ev) == ev.k = "write" /\ ev.a = "prompt"
IsSelectExit(ev) == IsConfirm(ev) \/ IsAbort(ev)
TextOps == {"close_branch", "changes", "diff", "commit_all", "update",
            "merge", "create_tag", "create_branch", "commit_selected"}

\* C15: in the dispatch of a matched action the action banner (after its
\* header) is the first thing that happens, before any prompt, input or
\* backend call; an operation that takes text is called only after the
\* prompt was shown and has returned the line; an outcome banner comes only
\* after a backend operation has returned (for the file browser: after the
\* launch); and a selective commit runs get_files_to_commit, then the
\* selection list to its exit, then the commit message prompt, then
\* commit_selected.
C15_Order ==
    (IsDispatchLog /\ Len(log) > 2) =>
        /\ Len(log) >= 5
        /\ log[2] = W("clear", "")
        /\ log[3] = W("header", RepositoryName)
        /\ log[4] = Flush("show_header")
        /\ log[5].k = "write" /\ log[5].a = "action"
        /\ \A i \in DOMAIN log :
               (log[i].k = "call" /\ log[i].a \in TextOps) =>
                   /\ log[i - 1].k = "readline" /\ log[i - 1].a = "Ok"
                   /\ IsPromptWrite(log[i - 2])
        /\ \A j \in DOMAIN log :
               IsBanner(log[j]) =>
                   \/ \E i \in 1..(j - 1) : log[i].k = "ret"
                   \/ KeyIs("e", "Char") /\ log[j - 1].k = "spawn"
        /\ \A j \in DOMAIN log :
               (IsListDraw(log[j]) \/ log[j].k = "select") =>
                   /\ log[6] = Call("get_files_to_commit", "", <<>>)
                   /\ log[7].k = "ret" /\ log[7].a = "Ok"
                   /\ j > 7
                   /\ \A p \in 1..j : ~IsPromptWrite(log[p])
        /\ KeyIs("C", "Char") =>
               \A p \in DOMAIN log :
                   IsPromptWrite(log[p]) =>
                       /\ IsSelectExit(log[p - 2])
                       /\ \A i \in 1..p : ~IsCommitSelected(log[i])

C15_Witness ==
    /\ KeyIs("C", "Char")
    /\ pc = "idle"
    /\ \E i \in DOMAIN log : /\ IsCommitSelected(log[i])
                             /\ log[i + 1].k = "ret"
                             /\ IsBanner(log[i + 3])
    /\ \E j \in DOMAIN log : log[j].k = "select" /\ log[j].a = "down"

PathsOf(es) == [n \in DOMAIN es |-> es[n].path]
ListDraws == {j \in DOMAIN log : IsListDraw(log[j])}

AwaitingInput ==
    \E i \in DOMAIN log :
        /\ IsPromptWrite(log[i])
        /\ \A j \in (i + 1)..Len(log) : log[j].k # "readline"
InSelection ==
    \E i \in ListDraws :
        \A j \in (i + 1)..Len(log) : ~IsSelectExit(log[j])
Idle == ~AwaitingInput /\ ~InSelection
CallsInFlight ==
    Len(CallsIn(log)) - Cardinality({i \in DOMAIN log : log[i].k = "ret"})

\* C17: the session is in exactly one of Idle, AwaitingInput, InSelection;
\* at most one backend call is in flight; a call in flight is the last
\* thing that happened (the thread waits for it: no key, line or selection
\* key is consumed before it returns), and it is never in flight while a
\* prompt or the selection list is active.
C17_Modes ==
    /\ ~(AwaitingInput /\ InSelection)
    /\ AwaitingInput <=> (pc = "prompt")
    /\ InSelection <=> (pc = "select")
    /\ CallsInFlight \in {0, 1}
    /\ (CallsInFlight = 1) <=> (pc = "backend")
    /\ (inflight # NoCall) <=> (pc = "backend")
    /\ pc = "backend" =>
           /\ log[Len(log)] = Call(inflight.op, inflight.arg, inflight.e)
           /\ Idle
    /\ \A i \in DOMAIN log :
           /\ log[i].k = "call" => (i = Len(log) \/ log[i + 1].k = "ret")
           /\ log[i].k = "ret" => (i > 1 /\ log[i - 1].k = "call")
           /\ log[i].k \in {"key", "nokey"} => i = 1

C17_Witness ==
    /\ pc = "backend"
    /\ inflight.op = "commit_selected"
    /\ \E i \in DOMAIN log : IsPromptWrite(log[i])
    /\ ListDraws # {}
    /\ Idle

\* C18: the session ends by the quit key only when the loop reads ctrl+c
\* as the key of an iteration, and then nothing is rendered and nothing is
\* called; an interrupt given to an open prompt only cancels the prompt and
\* the session goes on in Idle; the plain character 'c' does not end the
\* session, it dispatches commit all.
C18_Quit ==
    /\ exit = "quit" =>
           /\ pc = "exited"
           /\ log = <<Ev("key", "c", "Ctrl", <<>>)>>
    /\ KeyIs("c", "Ctrl") =>
           /\ pc = "exited"
           /\ exit = "quit"
    /\ \A i \in DOMAIN log :
           (log[i].k = "readline" /\ log[i].a = "Interrupted") =>
               /\ i > 1
               /\ log[i + 1] = W("canceled", "")
               /\ pc = "idle"
               /\ exit = "none"
               /\ released = 0
    /\ KeyIs("c", "Char") =>
           /\ ~Terminated
           /\ exit = "none"
           /\ log[5] = W("action", "commit all")
           /\ IsPromptWrite(log[6])
           /\ \A i \in DOMAIN log :
                  log[i].k = "call" => log[i].a = "commit_all"

C18_Witness ==
    /\ KeyIs("c", "Char")
    /\ \E i \in DOMAIN log :
           log[i].k = "readline" /\ log[i].a = "Interrupted"
    /\ pc = "idle"

\* What holds of an iteration that read no key, and of the session once the
\* key stream has ended.
C19_State ==
    /\ pc = "exited" =>
           /\ log = <<Ev("key", "c", "Ctrl", <<>>)>>
           /\ ~eof
    /\ (Len(log) > 0 /\ log[1].k = "nokey") =>
           /\ log = <<log[1], Flush("loop")>>
           /\ pc = "idle"
           /\ exit = "none"
           /\ released = 0
    /\ eof =>
           /\ log = <<Ev("nokey", "Eof", "", <<>>), Flush("loop")>>
           /\ pc = "idle"

\* C19: the loop returns only when ctrl+c is read; an iteration whose key
\* read fails or finds the stream at its end only flushes and the loop goes
\* on; once the key stream has ended without a ctrl+c, every later step is
\* another such iteration and the session never ends.
C19_Loop ==
    /\ []C19_State
    /\ [][eof => (eof' /\ pc' = "idle" /\ exit' = "none"
                      /\ log' = <<Ev("nokey", "Eof", "", <<>>),
                                  Flush("loop")>>)]_vars

C19_Witness ==
    /\ eof
    /\ pc = "idle"
    /\ log = <<Ev("nokey", "Eof", "", <<>>), Flush("loop")>>

====
